---------------------------- MODULE Spec2Model ----------------------------
(***************************************************************************)
(* Model of the delivery dashboard backend (src/backend/server.py).        *)
(*                                                                         *)
(* The three MongoDB collections (users, sessions, delivery_entries) are   *)
(* sequences in insertion order; find_one / update_one / delete_one act on *)
(* the first document that matches the filter.  Time is counted in days.   *)
(* Amounts (Python floats) are integers and a rate is an exact fraction.   *)
(* The `date` string of an entry is a natural number standing for the      *)
(* string's rank in string order, which is what MongoDB sorts by.          *)
(* Optional[T] is a sequence of length at most one: <<>> is None.          *)
(*                                                                         *)
(* A handler is a coroutine: it can be suspended at each await, and other  *)
(* requests are served meanwhile.  `calls` holds the requests that are      *)
(* suspended between two database calls, with their local variables.       *)
(***************************************************************************)
EXTENDS Integers, Sequences, FiniteSets, TLC

VARIABLES users, sessions, entries, now, ticks, nextEntryId, resp, calls

vars == <<users, sessions, entries, now, ticks, nextEntryId, resp, calls>>

(***************************************************************************)
(* Program constants                                                       *)
(***************************************************************************)
ADMIN_EMAIL == "jibon.ipe@gmail.com"
SESSION_DAYS == 7
RECENT_DAYS == 7
CHART_DAYS == 30
USER_ENTRIES_LIMIT == 1000
CHART_LIMIT == 100
ADMIN_ENTRIES_LIMIT == 1000
ADMIN_USERS_LIMIT == 1000
EXPORT_ENTRIES_LIMIT == 10000
HTTP_OK == 200
HTTP_BAD_REQUEST == 400
HTTP_UNAUTHORIZED == 401
HTTP_FORBIDDEN == 403
HTTP_NOT_FOUND == 404
HTTP_SERVER_ERROR == 500

(***************************************************************************)
(* Bounds of the model                                                     *)
(***************************************************************************)
MaxSessions == 2
MaxEntries == 1
MaxTicks == 1
MaxStored == 2
MaxCalls == 2

(***************************************************************************)
(* Inputs                                                                  *)
(***************************************************************************)
NoToken == ""
Tokens == {"t0", "t1", "t2"}
TokenOpt == Tokens \cup {NoToken}
Emails == {ADMIN_EMAIL, "a@example.com", "b@example.com"}
NoData == [none |-> TRUE]

\* user_data = auth_response.json(): what the identity provider answers
ProviderData ==
    [email : Emails, name : {"n"}, picture : {""}, session_token : Tokens]

\* the answers in which each identity gets a token of its own
OwnToken ==
    { [email |-> ADMIN_EMAIL, name |-> "n", picture |-> "", session_token |-> "t0"],
      [email |-> "a@example.com", name |-> "n", picture |-> "", session_token |-> "t1"],
      [email |-> "b@example.com", name |-> "n", picture |-> "", session_token |-> "t2"] }

\* bodies of POST /entries (DeliveryEntryCreate)
EntryInputs ==
    { [date |-> 1, challan_amount |-> 1000, delivered_amount |-> 450,
       pending_amount |-> 550, vehicle_required |-> 2, vehicle_confirmed |-> 1,
       vehicle_missing |-> 1, notes |-> ""],
      [date |-> 2, challan_amount |-> 0, delivered_amount |-> 0,
       pending_amount |-> 0, vehicle_required |-> 0, vehicle_confirmed |-> 1,
       vehicle_missing |-> 0, notes |-> "n"],
      [date |-> 1, challan_amount |-> 50, delivered_amount |-> 20,
       pending_amount |-> 30, vehicle_required |-> 3, vehicle_confirmed |-> 3,
       vehicle_missing |-> 0, notes |-> ""] }

\* JSON bodies of PUT /entries/{id}: a key may be absent, null (<<>>) or set;
\* keys that DeliveryEntryUpdate does not declare may be present as well
UpdateInputs ==
    { [notes |-> <<"x">>],
      [date |-> <<2>>, challan_amount |-> <<7>>, notes |-> <<>>],
      [user_id |-> <<99>>, id |-> <<99>>, created_at |-> <<99>>,
       vehicle_required |-> <<0>>] }

EntryIds == 1..(MaxEntries + 1)

(***************************************************************************)
(* Helpers                                                                 *)
(***************************************************************************)
Min(a, b) == IF a < b THEN a ELSE b

Abs(a) == IF a < 0 THEN -a ELSE a

RECURSIVE Gcd(_, _)
Gcd(a, b) == IF b = 0 THEN a ELSE Gcd(b, a % b)

\* the first n documents of a cursor: cursor.to_list(n)
ToList(seq, n) == SubSeq(seq, 1, Min(Len(seq), n))

\* collection.delete_one on the document at position i (0: nothing matched)
RemoveAt(seq, i) ==
    IF i = 0 THEN seq
    ELSE SubSeq(seq, 1, i - 1) \o SubSeq(seq, i + 1, Len(seq))

RECURSIVE SumField(_, _, _)
SumField(seq, f, n) == IF n = 0 THEN 0 ELSE seq[n][f] + SumField(seq, f, n - 1)

\* {"$sum": "$f"} over a list of documents
Sum(seq, f) == SumField(seq, f, Len(seq))


\* the greatest / least `date` among the documents of a non-empty list
MaxDate(seq) ==
    CHOOSE d \in {seq[i].date : i \in 1..Len(seq)} :
        \A j \in 1..Len(seq) : seq[j].date <= d

\* cursor.sort("date", -1); documents with equal dates keep insertion order
RECURSIVE SortByDateDesc(_)
SortByDateDesc(seq) ==
    IF seq = <<>> THEN <<>>
    ELSE LET m == MaxDate(seq)
         IN  SelectSeq(seq, LAMBDA e : e.date = m)
                \o SortByDateDesc(SelectSeq(seq, LAMBDA e : e.date # m))

MaxCreatedAt(seq) ==
    CHOOSE d \in {seq[i].created_at : i \in 1..Len(seq)} :
        \A j \in 1..Len(seq) : seq[j].created_at <= d

\* cursor.sort("created_at", -1)
RECURSIVE SortByCreatedAtDesc(_)
SortByCreatedAtDesc(seq) ==
    IF seq = <<>> THEN <<>>
    ELSE LET m == MaxCreatedAt(seq)
         IN  SelectSeq(seq, LAMBDA e : e.created_at = m)
                \o SortByCreatedAtDesc(SelectSeq(seq, LAMBDA e : e.created_at # m))

(***************************************************************************)
(* Fractions: Python's true division on the integer model of the amounts   *)
(***************************************************************************)
ZeroDivisionError == [num |-> 0, den |-> 0]

Reduce(n, d) ==
    LET g == Gcd(Abs(n), Abs(d))
    IN  IF n = 0 THEN [num |-> 0, den |-> 1]
        ELSE IF d < 0 THEN [num |-> (-n) \div g, den |-> (-d) \div g]
        ELSE [num |-> n \div g, den |-> d \div g]

\* a / b
TrueDiv(a, b) == IF b = 0 THEN ZeroDivisionError ELSE Reduce(a, b)

\* q * k
Times(q, k) == IF q = ZeroDivisionError THEN q ELSE Reduce(q.num * k, q.den)

Zero == Reduce(0, 1)

(***************************************************************************)
(* Initial state: empty collections                                        *)
(***************************************************************************)
\* the slots of suspended requests, all free
Slots == 1..MaxCalls

Idle == [op |-> "idle"]

NoCalls == [p \in Slots |-> Idle]

NoResp(op) ==
    [op |-> op, cookie |-> NoToken, bearer |-> NoToken, entry_id |-> 0,
     data |-> NoData, status |-> 0, body |-> <<>>,
     set_cookie |-> NoToken, clear_cookie |-> FALSE]

Init ==
    /\ users = <<>>
    /\ sessions = <<>>
    /\ entries = <<>>
    /\ now = 0
    /\ ticks = 0
    /\ nextEntryId = 1
    /\ resp = NoResp("init")
    /\ calls = NoCalls

\* the response of a handler that sets no cookie
Reply(op, cookie, bearer, entry_id, data, status, body) ==
    resp' = [op |-> op, cookie |-> cookie, bearer |-> bearer,
             entry_id |-> entry_id, data |-> data, status |-> status,
             body |-> body, set_cookie |-> NoToken, clear_cookie |-> FALSE]

(***************************************************************************)
(* Authentication helpers                                                  *)
(***************************************************************************)
\* mutant of SessionToken: the bearer token comes first
SessionTokenBearerFirst(cookie, bearer) == IF bearer # NoToken THEN bearer ELSE cookie

\* the token a request is looked up by: the cookie, else the bearer token
SessionToken(cookie, bearer) == IF cookie # NoToken THEN cookie ELSE bearer

\* db.sessions.find_one({"session_token": token}): position, 0 for None
FindSession(token) ==
    IF \E i \in 1..Len(sessions) : sessions[i].session_token = token
    THEN CHOOSE i \in 1..Len(sessions) :
            /\ sessions[i].session_token = token
            /\ \A j \in 1..(i - 1) : sessions[j].session_token # token
    ELSE 0

\* db.users.find_one({"id": id}): position, 0 for None
FindUserById(id) ==
    IF \E i \in 1..Len(users) : users[i].id = id
    THEN CHOOSE i \in 1..Len(users) :
            users[i].id = id /\ \A j \in 1..(i - 1) : users[j].id # id
    ELSE 0

\* db.users.find_one({"email": email}): position, 0 for None
FindUserByEmail(email) ==
    IF \E i \in 1..Len(users) : users[i].email = email
    THEN CHOOSE i \in 1..Len(users) :
            users[i].email = email /\ \A j \in 1..(i - 1) : users[j].email # email
    ELSE 0

\* db.delivery_entries.find_one({"id": entry_id}): position, 0 for None
FindEntry(entry_id) ==
    IF \E i \in 1..Len(entries) : entries[i].id = entry_id
    THEN CHOOSE i \in 1..Len(entries) :
            entries[i].id = entry_id /\ \A j \in 1..(i - 1) : entries[j].id # entry_id
    ELSE 0

\* mutant of IsExpired: the comparison is the wrong way round
IsExpiredFlipped(session) == now < session.expires_at

\* datetime.now(timezone.utc) > session["expires_at"]
IsExpired(session) == now > session.expires_at

\* get_current_user: the user, or <<>> for None
get_current_user(cookie, bearer) ==
    LET session_token == SessionToken(cookie, bearer)
        s == FindSession(session_token)
    IN  IF session_token = NoToken THEN <<>>
        ELSE IF s = 0 \/ IsExpired(sessions[s]) THEN <<>>
        ELSE LET u == FindUserById(sessions[s].user_id)
             IN  IF u = 0 THEN <<>> ELSE <<users[u]>>

\* get_current_user's effect on db.sessions: an expired session that was
\* found is deleted by its _id
SessionsAfterLookup(cookie, bearer) ==
    LET session_token == SessionToken(cookie, bearer)
        s == FindSession(session_token)
    IN  IF session_token # NoToken /\ s # 0 /\ IsExpired(sessions[s])
        THEN RemoveAt(sessions, s)
        ELSE sessions

\* require_auth: the status it raises (or 200) and the user
require_auth(cookie, bearer) ==
    LET user == get_current_user(cookie, bearer)
    IN  IF user = <<>> THEN [status |-> HTTP_UNAUTHORIZED, user |-> <<>>]
        ELSE [status |-> HTTP_OK, user |-> user]

\* mutant of require_admin: the role is not checked
require_admin_any_role(cookie, bearer) == require_auth(cookie, bearer)

\* require_admin
require_admin(cookie, bearer) ==
    LET auth == require_auth(cookie, bearer)
    IN  IF auth.status # HTTP_OK THEN auth
        ELSE IF auth.user[1].role # "admin"
        THEN [status |-> HTTP_FORBIDDEN, user |-> <<>>]
        ELSE auth

(***************************************************************************)
(* Auth endpoints                                                          *)
(***************************************************************************)
NoHeader == ""

\* mutant of RoleFor: every new user gets the model's default role
RoleForDefault(email) == "user"

\* "admin" if user_data["email"] == "jibon.ipe@gmail.com" else "user"
RoleFor(email) == IF email = ADMIN_EMAIL THEN "admin" ELSE "user"

\* mutant of create_session: the provider is called before the header is
\* looked at
create_session_provider_first(session_id, outcome, user_data) ==
    LET role == RoleFor(user_data.email)
        existing_user == FindUserByEmail(user_data.email)
        user == IF existing_user # 0 THEN users[existing_user]
                ELSE [id |-> Len(users) + 1, email |-> user_data.email,
                      name |-> user_data.name, picture |-> user_data.picture,
                      role |-> role, created_at |-> now]
        session == [user_id |-> user.id,
                    session_token |-> user_data.session_token,
                    expires_at |-> now + SESSION_DAYS, created_at |-> now]
        failure == IF outcome = "unreachable" THEN HTTP_SERVER_ERROR
                   ELSE IF session_id = NoHeader THEN HTTP_BAD_REQUEST
                   ELSE IF outcome = "rejected" THEN HTTP_BAD_REQUEST
                   ELSE HTTP_OK
    IN  /\ UNCHANGED <<entries, now, ticks, nextEntryId>>
        /\ IF failure # HTTP_OK
           THEN /\ UNCHANGED <<users, sessions>>
                /\ resp' = [NoResp("create_session") EXCEPT
                              !.status = failure, !.data = [session_id |-> session_id]]
           ELSE /\ users' = IF existing_user # 0 THEN users ELSE Append(users, user)
                /\ sessions' = Append(sessions, session)
                /\ resp' = [NoResp("create_session") EXCEPT
                              !.status = HTTP_OK, !.data = [session_id |-> session_id],
                              !.body = <<user>>,
                              !.set_cookie = user_data.session_token]

\* POST /auth/session.  session_id is the X-Session-ID header, outcome what
\* the call to the identity provider does, user_data the provider's answer.
create_session(session_id, outcome, user_data) ==
    LET role == RoleFor(user_data.email)
        existing_user == FindUserByEmail(user_data.email)
        user == IF existing_user # 0 THEN users[existing_user]
                ELSE [id |-> Len(users) + 1, email |-> user_data.email,
                      name |-> user_data.name, picture |-> user_data.picture,
                      role |-> role, created_at |-> now]
        session == [user_id |-> user.id,
                    session_token |-> user_data.session_token,
                    expires_at |-> now + SESSION_DAYS, created_at |-> now]
        failure == IF session_id = NoHeader THEN HTTP_BAD_REQUEST
                   ELSE IF outcome = "unreachable" THEN HTTP_SERVER_ERROR
                   ELSE IF outcome = "rejected" THEN HTTP_BAD_REQUEST
                   ELSE HTTP_OK
    IN  /\ UNCHANGED <<entries, now, ticks, nextEntryId>>
        /\ IF failure # HTTP_OK
           THEN /\ UNCHANGED <<users, sessions>>
                /\ resp' = [NoResp("create_session") EXCEPT
                              !.status = failure, !.data = [session_id |-> session_id]]
           ELSE /\ users' = IF existing_user # 0 THEN users ELSE Append(users, user)
                /\ sessions' = Append(sessions, session)
                /\ resp' = [NoResp("create_session") EXCEPT
                              !.status = HTTP_OK, !.data = [session_id |-> session_id],
                              !.body = <<user>>,
                              !.set_cookie = user_data.session_token]

\* GET /auth/me
get_me(cookie, bearer) ==
    LET user == get_current_user(cookie, bearer)
    IN  /\ sessions' = SessionsAfterLookup(cookie, bearer)
        /\ UNCHANGED <<users, entries, now, ticks, nextEntryId>>
        /\ IF user = <<>>
           THEN Reply("get_me", cookie, bearer, 0, NoData, HTTP_UNAUTHORIZED, <<>>)
           ELSE Reply("get_me", cookie, bearer, 0, NoData, HTTP_OK, user)

\* POST /auth/logout
logout(cookie, bearer) ==
    LET session_token == SessionToken(cookie, bearer)
    IN  /\ UNCHANGED <<users, entries, now, ticks, nextEntryId>>
        /\ sessions' = IF session_token # NoToken
                       THEN RemoveAt(sessions, FindSession(session_token))
                       ELSE sessions
        /\ resp' = [NoResp("logout") EXCEPT
                      !.cookie = cookie, !.bearer = bearer, !.status = HTTP_OK,
                      !.clear_cookie = (session_token # NoToken)]

(***************************************************************************)
(* Delivery entries endpoints                                              *)
(***************************************************************************)
CreateFields ==
    {"date", "challan_amount", "delivered_amount", "pending_amount",
     "vehicle_required", "vehicle_confirmed", "vehicle_missing", "notes"}

UpdateFields == CreateFields

EntryFields == CreateFields \cup {"id", "user_id", "created_at", "updated_at"}

\* DeliveryEntry(user_id=user.id, **entry_data.dict())
NewEntry(user, entry_data) ==
    [f \in EntryFields |->
        CASE f = "id" -> nextEntryId
          [] f = "user_id" -> user.id
          [] f = "created_at" -> now
          [] f = "updated_at" -> now
          [] OTHER -> entry_data[f]]

\* POST /entries
create_entry(cookie, bearer, entry_data) ==
    LET auth == require_auth(cookie, bearer)
    IN  /\ sessions' = SessionsAfterLookup(cookie, bearer)
        /\ UNCHANGED <<users, now, ticks>>
        /\ IF auth.status # HTTP_OK
           THEN /\ UNCHANGED <<entries, nextEntryId>>
                /\ Reply("create_entry", cookie, bearer, 0, entry_data, auth.status, <<>>)
           ELSE LET entry == NewEntry(auth.user[1], entry_data)
                IN  /\ entries' = Append(entries, entry)
                    /\ nextEntryId' = nextEntryId + 1
                    /\ Reply("create_entry", cookie, bearer, 0, entry_data,
                             HTTP_OK, <<entry>>)

\* db.delivery_entries.find({"user_id": id}).sort("date", -1).to_list(1000)
UserEntries(id) ==
    ToList(SortByDateDesc(SelectSeq(entries, LAMBDA e : e.user_id = id)),
           USER_ENTRIES_LIMIT)

\* GET /entries
get_user_entries(cookie, bearer) ==
    LET auth == require_auth(cookie, bearer)
    IN  /\ sessions' = SessionsAfterLookup(cookie, bearer)
        /\ UNCHANGED <<users, entries, now, ticks, nextEntryId>>
        /\ IF auth.status # HTTP_OK
           THEN Reply("get_user_entries", cookie, bearer, 0, NoData, auth.status, <<>>)
           ELSE Reply("get_user_entries", cookie, bearer, 0, NoData, HTTP_OK,
                      UserEntries(auth.user[1].id))

\* get_entry's checks after require_auth: the status it raises, or 200
GetEntryCheck(user, entry_id) ==
    LET entry == FindEntry(entry_id)
    IN  IF entry = 0 THEN HTTP_NOT_FOUND
        ELSE IF entries[entry].user_id # user.id /\ user.role # "admin"
        THEN HTTP_FORBIDDEN
        ELSE HTTP_OK

\* GET /entries/{entry_id}
get_entry(cookie, bearer, entry_id) ==
    LET auth == require_auth(cookie, bearer)
        status == IF auth.status # HTTP_OK THEN auth.status
                  ELSE GetEntryCheck(auth.user[1], entry_id)
    IN  /\ sessions' = SessionsAfterLookup(cookie, bearer)
        /\ UNCHANGED <<users, entries, now, ticks, nextEntryId>>
        /\ IF status # HTTP_OK
           THEN Reply("get_entry", cookie, bearer, entry_id, NoData, status, <<>>)
           ELSE Reply("get_entry", cookie, bearer, entry_id, NoData, HTTP_OK,
                      <<entries[FindEntry(entry_id)]>>)

\* DeliveryEntryUpdate parsed from the JSON body: a declared field that is
\* absent or null is None, an undeclared key is ignored
ParseUpdate(body) ==
    [f \in UpdateFields |-> IF f \in DOMAIN body THEN body[f] ELSE <<>>]

\* update_data: the fields that are not None, and updated_at
UpdateData(entry_data) ==
    [f \in {g \in UpdateFields : entry_data[g] # <<>>} \cup {"updated_at"} |->
        IF f = "updated_at" THEN now ELSE entry_data[f][1]]

\* mutant of SetFields: a field the update does not name falls back to the
\* model's default instead of keeping its value
SetFieldsDefaultNotes(doc, update_data) ==
    [f \in DOMAIN doc \cup DOMAIN update_data |->
        IF f \in DOMAIN update_data THEN update_data[f]
        ELSE IF f = "notes" THEN "" ELSE doc[f]]

\* {"$set": update_data} on one document
SetFields(doc, update_data) ==
    [f \in DOMAIN doc \cup DOMAIN update_data |->
        IF f \in DOMAIN update_data THEN update_data[f] ELSE doc[f]]

\* update_entry's checks after require_auth: the status it raises, or 200
UpdateEntryCheck(user, entry_id) ==
    LET entry == FindEntry(entry_id)
    IN  IF entry = 0 THEN HTTP_NOT_FOUND
        ELSE IF entries[entry].user_id # user.id /\ user.role # "admin"
        THEN HTTP_FORBIDDEN
        ELSE HTTP_OK

\* PUT /entries/{entry_id}
update_entry(cookie, bearer, entry_id, body) ==
    LET auth == require_auth(cookie, bearer)
        status == IF auth.status # HTTP_OK THEN auth.status
                  ELSE UpdateEntryCheck(auth.user[1], entry_id)
        i == FindEntry(entry_id)
    IN  /\ sessions' = SessionsAfterLookup(cookie, bearer)
        /\ UNCHANGED <<users, now, ticks, nextEntryId>>
        /\ IF status # HTTP_OK
           THEN /\ UNCHANGED entries
                /\ Reply("update_entry", cookie, bearer, entry_id, body, status, <<>>)
           ELSE /\ entries' = [entries EXCEPT
                                 ![i] = SetFields(@, UpdateData(ParseUpdate(body)))]
                /\ Reply("update_entry", cookie, bearer, entry_id, body, HTTP_OK,
                         <<entries'[i]>>)

\* mutant of DeleteEntryCheck: the ownership check is missing
DeleteEntryCheckNoOwner(user, entry_id) ==
    IF FindEntry(entry_id) = 0 THEN HTTP_NOT_FOUND ELSE HTTP_OK

\* delete_entry's checks after require_auth: the status it raises, or 200
DeleteEntryCheck(user, entry_id) ==
    LET entry == FindEntry(entry_id)
    IN  IF entry = 0 THEN HTTP_NOT_FOUND
        ELSE IF entries[entry].user_id # user.id /\ user.role # "admin"
        THEN HTTP_FORBIDDEN
        ELSE HTTP_OK

\* DELETE /entries/{entry_id}
delete_entry(cookie, bearer, entry_id) ==
    LET auth == require_auth(cookie, bearer)
        status == IF auth.status # HTTP_OK THEN auth.status
                  ELSE DeleteEntryCheck(auth.user[1], entry_id)
    IN  /\ sessions' = SessionsAfterLookup(cookie, bearer)
        /\ UNCHANGED <<users, now, ticks, nextEntryId>>
        /\ entries' = IF status # HTTP_OK THEN entries
                      ELSE RemoveAt(entries, FindEntry(entry_id))
        /\ Reply("delete_entry", cookie, bearer, entry_id, NoData, status, <<>>)

(***************************************************************************)
(* Dashboard endpoints                                                     *)
(***************************************************************************)
\* mutant of GroupAll: total_pending_amount sums the delivered amounts
GroupAllPendingSlip(docs) ==
    [total_challan_amount |-> Sum(docs, "challan_amount"),
     total_delivered_amount |-> Sum(docs, "delivered_amount"),
     total_pending_amount |-> Sum(docs, "delivered_amount"),
     total_vehicle_required |-> Sum(docs, "vehicle_required"),
     total_vehicle_confirmed |-> Sum(docs, "vehicle_confirmed"),
     total_vehicle_missing |-> Sum(docs, "vehicle_missing"),
     total_entries |-> Len(docs)]

\* the $group stage with _id None over the whole collection
GroupAll(docs) ==
    [total_challan_amount |-> Sum(docs, "challan_amount"),
     total_delivered_amount |-> Sum(docs, "delivered_amount"),
     total_pending_amount |-> Sum(docs, "pending_amount"),
     total_vehicle_required |-> Sum(docs, "vehicle_required"),
     total_vehicle_confirmed |-> Sum(docs, "vehicle_confirmed"),
     total_vehicle_missing |-> Sum(docs, "vehicle_missing"),
     total_entries |-> Len(docs)]

\* (delivered / challan) * 100 if challan > 0 else 0
DeliveryRate(data) ==
    IF data.total_challan_amount > 0
    THEN Times(TrueDiv(data.total_delivered_amount, data.total_challan_amount), 100)
    ELSE Zero

\* mutant of VehicleUtilizationRate: the guard tests the confirmed count
VehicleUtilizationRateConfirmedGuard(data) ==
    IF data.total_vehicle_confirmed > 0
    THEN Times(TrueDiv(data.total_vehicle_confirmed, data.total_vehicle_required), 100)
    ELSE Zero

\* (confirmed / required) * 100 if required > 0 else 0
VehicleUtilizationRate(data) ==
    IF data.total_vehicle_required > 0
    THEN Times(TrueDiv(data.total_vehicle_confirmed, data.total_vehicle_required), 100)
    ELSE Zero

\* count_documents({"created_at": {"$gte": seven_days_ago}})
RecentEntriesCount(docs) ==
    Len(SelectSeq(docs, LAMBDA e : e.created_at >= now - RECENT_DAYS))

EmptySummary ==
    [total_challan_amount |-> 0, total_delivered_amount |-> 0,
     total_pending_amount |-> 0, total_vehicle_required |-> 0,
     total_vehicle_confirmed |-> 0, total_vehicle_missing |-> 0,
     delivery_rate |-> Zero, vehicle_utilization_rate |-> Zero,
     recent_entries_count |-> 0]

\* the DashboardSummary get_dashboard_summary builds from the collection
Summary(docs) ==
    IF docs = <<>> THEN EmptySummary
    ELSE LET data == GroupAll(docs)
         IN  [total_challan_amount |-> data.total_challan_amount,
              total_delivered_amount |-> data.total_delivered_amount,
              total_pending_amount |-> data.total_pending_amount,
              total_vehicle_required |-> data.total_vehicle_required,
              total_vehicle_confirmed |-> data.total_vehicle_confirmed,
              total_vehicle_missing |-> data.total_vehicle_missing,
              delivery_rate |-> DeliveryRate(data),
              vehicle_utilization_rate |-> VehicleUtilizationRate(data),
              recent_entries_count |-> RecentEntriesCount(docs)]

\* GET /dashboard/summary; an uncaught ZeroDivisionError is a 500
get_dashboard_summary(cookie, bearer) ==
    LET auth == require_auth(cookie, bearer)
        summary == Summary(entries)
    IN  /\ sessions' = SessionsAfterLookup(cookie, bearer)
        /\ UNCHANGED <<users, entries, now, ticks, nextEntryId>>
        /\ IF auth.status # HTTP_OK
           THEN Reply("get_dashboard_summary", cookie, bearer, 0, NoData,
                      auth.status, <<>>)
           ELSE IF \/ summary.delivery_rate = ZeroDivisionError
                   \/ summary.vehicle_utilization_rate = ZeroDivisionError
           THEN Reply("get_dashboard_summary", cookie, bearer, 0, NoData,
                      HTTP_SERVER_ERROR, <<>>)
           ELSE Reply("get_dashboard_summary", cookie, bearer, 0, NoData,
                      HTTP_OK, <<summary>>)

\* the $match stage: created_at >= thirty_days_ago
ChartMatch(docs) ==
    SelectSeq(docs, LAMBDA e : e.created_at >= now - CHART_DAYS)

\* one group of the $group stage with _id "$date"
ChartGroup(docs, date) ==
    LET group == SelectSeq(docs, LAMBDA e : e.date = date)
    IN  [_id |-> date,
         challan_amount |-> Sum(group, "challan_amount"),
         delivered_amount |-> Sum(group, "delivered_amount"),
         pending_amount |-> Sum(group, "pending_amount"),
         vehicle_required |-> Sum(group, "vehicle_required"),
         vehicle_confirmed |-> Sum(group, "vehicle_confirmed")]

\* the groups of the given dates, sorted by _id ascending
ChartGroups(docs, dates) ==
    LET ranked == {<<Cardinality({e \in dates : e < d}) + 1, d>> : d \in dates}
    IN  [j \in 1..Cardinality(dates) |->
            ChartGroup(docs, (CHOOSE p \in ranked : p[1] = j)[2])]

\* daily_data = aggregate(pipeline).to_list(100)
DailyData(docs) ==
    LET matched == ChartMatch(docs)
    IN  ToList(ChartGroups(matched, {matched[i].date : i \in 1..Len(matched)}),
               CHART_LIMIT)

\* GET /dashboard/chart-data
get_chart_data(cookie, bearer) ==
    LET auth == require_auth(cookie, bearer)
    IN  /\ sessions' = SessionsAfterLookup(cookie, bearer)
        /\ UNCHANGED <<users, entries, now, ticks, nextEntryId>>
        /\ IF auth.status # HTTP_OK
           THEN Reply("get_chart_data", cookie, bearer, 0, NoData, auth.status, <<>>)
           ELSE Reply("get_chart_data", cookie, bearer, 0, NoData, HTTP_OK,
                      <<[daily_trend |-> DailyData(entries)]>>)

(***************************************************************************)
(* Admin endpoints                                                         *)
(***************************************************************************)
\* GET /admin/entries
get_all_entries(cookie, bearer) ==
    LET auth == require_admin(cookie, bearer)
    IN  /\ sessions' = SessionsAfterLookup(cookie, bearer)
        /\ UNCHANGED <<users, entries, now, ticks, nextEntryId>>
        /\ IF auth.status # HTTP_OK
           THEN Reply("get_all_entries", cookie, bearer, 0, NoData, auth.status, <<>>)
           ELSE Reply("get_all_entries", cookie, bearer, 0, NoData, HTTP_OK,
                      ToList(SortByCreatedAtDesc(entries), ADMIN_ENTRIES_LIMIT))

\* GET /admin/users
get_all_users(cookie, bearer) ==
    LET auth == require_admin(cookie, bearer)
    IN  /\ sessions' = SessionsAfterLookup(cookie, bearer)
        /\ UNCHANGED <<users, entries, now, ticks, nextEntryId>>
        /\ IF auth.status # HTTP_OK
           THEN Reply("get_all_users", cookie, bearer, 0, NoData, auth.status, <<>>)
           ELSE Reply("get_all_users", cookie, bearer, 0, NoData, HTTP_OK,
                      ToList(users, ADMIN_USERS_LIMIT))

\* GET /admin/export
export_data(cookie, bearer) ==
    LET auth == require_admin(cookie, bearer)
    IN  /\ sessions' = SessionsAfterLookup(cookie, bearer)
        /\ UNCHANGED <<users, entries, now, ticks, nextEntryId>>
        /\ IF auth.status # HTTP_OK
           THEN Reply("export_data", cookie, bearer, 0, NoData, auth.status, <<>>)
           ELSE Reply("export_data", cookie, bearer, 0, NoData, HTTP_OK,
                      <<[export_date |-> now,
                         entries |-> ToList(entries, EXPORT_ENTRIES_LIMIT),
                         users |-> ToList(users, ADMIN_USERS_LIMIT)]>>)

(***************************************************************************)
(* The handlers that write, step by step.  A step runs a handler from one  *)
(* database call to the next; between two steps of a request, steps of     *)
(* other requests may run.  The reads a handler makes before its first     *)
(* write are one step.  The uuid of a new user is drawn when the User is   *)
(* built and nothing can see it before the insert, so it is chosen at the  *)
(* insert.                                                                 *)
(***************************************************************************)
Suspend(p, call) == calls' = [calls EXCEPT ![p] = call]

Return(p) == calls' = [calls EXCEPT ![p] = Idle]

At(p, op, pc) == calls[p].op = op /\ calls[p].pc = pc

\* create_session: the header test and the call to the identity provider
create_session_begin(p, session_id, outcome, user_data) ==
    LET failure == IF session_id = NoHeader THEN HTTP_BAD_REQUEST
                   ELSE IF outcome = "unreachable" THEN HTTP_SERVER_ERROR
                   ELSE IF outcome = "rejected" THEN HTTP_BAD_REQUEST
                   ELSE HTTP_OK
    IN  /\ calls[p] = Idle
        /\ UNCHANGED <<users, sessions, entries, now, ticks, nextEntryId>>
        /\ IF failure # HTTP_OK
           THEN /\ UNCHANGED calls
                /\ resp' = [NoResp("create_session") EXCEPT
                              !.status = failure, !.data = [session_id |-> session_id]]
           ELSE /\ Suspend(p, [op |-> "create_session", pc |-> "find_user",
                               session_id |-> session_id, user_data |-> user_data])
                /\ resp' = NoResp("await")

\* existing_user = await db.users.find_one({"email": ...}), and the User
\* built when there is none
create_session_find_user(p) ==
    LET user_data == calls[p].user_data
        existing_user == FindUserByEmail(user_data.email)
        user == IF existing_user # 0 THEN users[existing_user]
                ELSE [id |-> 0, email |-> user_data.email,
                      name |-> user_data.name, picture |-> user_data.picture,
                      role |-> RoleFor(user_data.email), created_at |-> now]
    IN  /\ At(p, "create_session", "find_user")
        /\ UNCHANGED <<users, sessions, entries, now, ticks, nextEntryId>>
        /\ Suspend(p, [op |-> "create_session",
                       pc |-> IF existing_user # 0 THEN "insert_session"
                              ELSE "insert_user",
                       session_id |-> calls[p].session_id,
                       user_data |-> user_data, user |-> user])
        /\ resp' = NoResp("await")

\* mutant of create_session_insert_user: the insert is lost
create_session_insert_user_lost(p) ==
    /\ At(p, "create_session", "insert_user")
    /\ UNCHANGED <<users, sessions, entries, now, ticks, nextEntryId>>
    /\ Suspend(p, [calls[p] EXCEPT !.pc = "insert_session",
                                   !.user = [@ EXCEPT !.id = Len(users) + 1]])
    /\ resp' = NoResp("await")

\* await db.users.insert_one(user.dict())
create_session_insert_user(p) ==
    LET user == [calls[p].user EXCEPT !.id = Len(users) + 1]
    IN  /\ At(p, "create_session", "insert_user")
        /\ users' = Append(users, user)
        /\ UNCHANGED <<sessions, entries, now, ticks, nextEntryId>>
        /\ Suspend(p, [calls[p] EXCEPT !.pc = "insert_session", !.user = user])
        /\ resp' = NoResp("await")

\* await db.sessions.insert_one(session.dict()), the cookie and the answer
create_session_insert_session(p) ==
    LET user == calls[p].user
        user_data == calls[p].user_data
        session == [user_id |-> user.id,
                    session_token |-> user_data.session_token,
                    expires_at |-> now + SESSION_DAYS, created_at |-> now]
    IN  /\ At(p, "create_session", "insert_session")
        /\ sessions' = Append(sessions, session)
        /\ UNCHANGED <<users, entries, now, ticks, nextEntryId>>
        /\ Return(p)
        /\ resp' = [NoResp("create_session") EXCEPT
                      !.status = HTTP_OK,
                      !.data = [session_id |-> calls[p].session_id],
                      !.body = <<user>>,
                      !.set_cookie = user_data.session_token]

\* update_entry: require_auth, find_one and the two checks; update_data is
\* built before the write is awaited
update_entry_begin(p, cookie, bearer, entry_id, body) ==
    LET auth == require_auth(cookie, bearer)
        status == IF auth.status # HTTP_OK THEN auth.status
                  ELSE UpdateEntryCheck(auth.user[1], entry_id)
    IN  /\ calls[p] = Idle
        /\ sessions' = SessionsAfterLookup(cookie, bearer)
        /\ UNCHANGED <<users, entries, now, ticks, nextEntryId>>
        /\ IF status # HTTP_OK
           THEN /\ UNCHANGED calls
                /\ Reply("update_entry", cookie, bearer, entry_id, body, status, <<>>)
           ELSE /\ Suspend(p, [op |-> "update_entry", pc |-> "update_one",
                               cookie |-> cookie, bearer |-> bearer,
                               entry_id |-> entry_id, body |-> body,
                               update_data |-> UpdateData(ParseUpdate(body))])
                /\ resp' = NoResp("await")

\* mutant of update_entry_update_one: the write is dropped when another
\* update of the entry has written since this one passed its checks
update_entry_update_one_first_wins(p) ==
    LET i == FindEntry(calls[p].entry_id)
        beaten == \E q \in Slots \ {p} :
                     /\ calls[q].op = "update_entry"
                     /\ calls[q].pc = "find_one"
                     /\ calls[q].entry_id = calls[p].entry_id
    IN  /\ At(p, "update_entry", "update_one")
        /\ entries' = IF i = 0 \/ beaten THEN entries
                      ELSE [entries EXCEPT ![i] = SetFields(@, calls[p].update_data)]
        /\ UNCHANGED <<users, sessions, now, ticks, nextEntryId>>
        /\ Suspend(p, [calls[p] EXCEPT !.pc = "find_one"])
        /\ resp' = NoResp("await")

\* await db.delivery_entries.update_one({"id": entry_id}, {"$set": update_data}):
\* no document matches when the entry is gone, and none is inserted
update_entry_update_one(p) ==
    LET i == FindEntry(calls[p].entry_id)
    IN  /\ At(p, "update_entry", "update_one")
        /\ entries' = IF i = 0 THEN entries
                      ELSE [entries EXCEPT ![i] = SetFields(@, calls[p].update_data)]
        /\ UNCHANGED <<users, sessions, now, ticks, nextEntryId>>
        /\ Suspend(p, [calls[p] EXCEPT !.pc = "find_one"])
        /\ resp' = NoResp("await")

\* updated_entry = await db.delivery_entries.find_one({"id": entry_id});
\* DeliveryEntry(**None) is a TypeError, answered 500
update_entry_find_one(p) ==
    LET i == FindEntry(calls[p].entry_id)
    IN  /\ At(p, "update_entry", "find_one")
        /\ UNCHANGED <<users, sessions, entries, now, ticks, nextEntryId>>
        /\ Return(p)
        /\ Reply("update_entry", calls[p].cookie, calls[p].bearer,
                 calls[p].entry_id, calls[p].body,
                 IF i = 0 THEN HTTP_SERVER_ERROR ELSE HTTP_OK,
                 IF i = 0 THEN <<>> ELSE <<entries[i]>>)

\* delete_entry: require_auth, find_one and the two checks
delete_entry_begin(p, cookie, bearer, entry_id) ==
    LET auth == require_auth(cookie, bearer)
        status == IF auth.status # HTTP_OK THEN auth.status
                  ELSE DeleteEntryCheck(auth.user[1], entry_id)
    IN  /\ calls[p] = Idle
        /\ sessions' = SessionsAfterLookup(cookie, bearer)
        /\ UNCHANGED <<users, entries, now, ticks, nextEntryId>>
        /\ IF status # HTTP_OK
           THEN /\ UNCHANGED calls
                /\ Reply("delete_entry", cookie, bearer, entry_id, NoData, status, <<>>)
           ELSE /\ Suspend(p, [op |-> "delete_entry", pc |-> "delete_one",
                               cookie |-> cookie, bearer |-> bearer,
                               entry_id |-> entry_id])
                /\ resp' = NoResp("await")

\* await db.delivery_entries.delete_one({"id": entry_id}) and the answer
delete_entry_delete_one(p) ==
    /\ At(p, "delete_entry", "delete_one")
    /\ entries' = RemoveAt(entries, FindEntry(calls[p].entry_id))
    /\ UNCHANGED <<users, sessions, now, ticks, nextEntryId>>
    /\ Return(p)
    /\ Reply("delete_entry", calls[p].cookie, calls[p].bearer,
             calls[p].entry_id, NoData, HTTP_OK, <<>>)

(***************************************************************************)
(* The clock: d days pass between two requests                             *)
(***************************************************************************)
Tick(d) ==
    /\ now' = now + d
    /\ ticks' = ticks + 1
    /\ resp' = NoResp("tick")
    /\ UNCHANGED <<users, sessions, entries, nextEntryId>>

(***************************************************************************)
(* Requests: a handler called with inputs from small sets and served from  *)
(* its first line to its last with no other request in between.  A         *)
(* credential is <<cookie, bearer>>.                                       *)
(***************************************************************************)
NoCredential == {<<NoToken, NoToken>>}
BearerOnly == {<<NoToken, t>> : t \in Tokens}
CookieOnly == {<<t, NoToken>> : t \in Tokens}
CookieAndBearer == {<<t, u>> : t \in Tokens, u \in Tokens}
Credentials == NoCredential \cup BearerOnly \cup CookieOnly \cup CookieAndBearer

CreateSession(session_ids, outcomes, answers) ==
    \E session_id \in session_ids, outcome \in outcomes, user_data \in answers :
        /\ Len(sessions) < MaxSessions
        /\ create_session(session_id, outcome, user_data)
        /\ UNCHANGED calls

GetMe(creds) == \E c \in creds : get_me(c[1], c[2]) /\ UNCHANGED calls

Logout(creds) == \E c \in creds : logout(c[1], c[2]) /\ UNCHANGED calls

CreateEntry(creds, inputs, max) ==
    \E c \in creds, entry_data \in inputs :
        /\ nextEntryId <= max
        /\ create_entry(c[1], c[2], entry_data)
        /\ UNCHANGED calls

GetUserEntries(creds) ==
    \E c \in creds : get_user_entries(c[1], c[2]) /\ UNCHANGED calls

GetEntry(creds) ==
    \E c \in creds, entry_id \in EntryIds :
        get_entry(c[1], c[2], entry_id) /\ UNCHANGED calls

UpdateEntry(creds, bodies) ==
    \E c \in creds, entry_id \in EntryIds, body \in bodies :
        update_entry(c[1], c[2], entry_id, body) /\ UNCHANGED calls

DeleteEntry(creds) ==
    \E c \in creds, entry_id \in EntryIds :
        delete_entry(c[1], c[2], entry_id) /\ UNCHANGED calls

GetDashboardSummary(creds) ==
    \E c \in creds : get_dashboard_summary(c[1], c[2]) /\ UNCHANGED calls

GetChartData(creds) ==
    \E c \in creds : get_chart_data(c[1], c[2]) /\ UNCHANGED calls

GetAllEntries(creds) ==
    \E c \in creds : get_all_entries(c[1], c[2]) /\ UNCHANGED calls

GetAllUsers(creds) ==
    \E c \in creds : get_all_users(c[1], c[2]) /\ UNCHANGED calls

ExportData(creds) ==
    \E c \in creds : export_data(c[1], c[2]) /\ UNCHANGED calls

PassTime(steps) ==
    \E d \in steps : ticks < MaxTicks /\ Tick(d) /\ UNCHANGED calls

(***************************************************************************)
(* Requests served step by step, in a free slot                            *)
(***************************************************************************)
InFlight(op) == {p \in Slots : calls[p].op = op}

CreateSessionBegin(session_ids, outcomes, answers) ==
    \E p \in Slots, session_id \in session_ids, outcome \in outcomes,
       user_data \in answers :
        /\ Len(sessions) + Cardinality(InFlight("create_session")) < MaxSessions
        /\ create_session_begin(p, session_id, outcome, user_data)

CreateSessionFindUser == \E p \in Slots : create_session_find_user(p)

CreateSessionInsertUser == \E p \in Slots : create_session_insert_user(p)

CreateSessionInsertSession == \E p \in Slots : create_session_insert_session(p)

UpdateEntryBegin(creds, ids, bodies) ==
    \E p \in Slots, c \in creds, entry_id \in ids, body \in bodies :
        update_entry_begin(p, c[1], c[2], entry_id, body)

UpdateEntryUpdateOne == \E p \in Slots : update_entry_update_one(p)

UpdateEntryFindOne == \E p \in Slots : update_entry_find_one(p)

DeleteEntryBegin(creds, ids) ==
    \E p \in Slots, c \in creds, entry_id \in ids :
        delete_entry_begin(p, c[1], c[2], entry_id)

DeleteEntryDeleteOne == \E p \in Slots : delete_entry_delete_one(p)

(***************************************************************************)
(* The whole service                                                       *)
(***************************************************************************)
Next ==
    \/ CreateSession({NoHeader, "sid"}, {"ok", "rejected", "unreachable"}, ProviderData)
    \/ GetMe(Credentials)
    \/ Logout(Credentials)
    \/ CreateEntry(Credentials, EntryInputs, MaxEntries)
    \/ GetUserEntries(Credentials)
    \/ GetEntry(Credentials)
    \/ UpdateEntry(Credentials, UpdateInputs)
    \/ DeleteEntry(Credentials)
    \/ GetDashboardSummary(Credentials)
    \/ GetChartData(Credentials)
    \/ GetAllEntries(Credentials)
    \/ GetAllUsers(Credentials)
    \/ ExportData(Credentials)
    \/ PassTime({1, SESSION_DAYS, CHART_DAYS})

Spec == Init /\ [][Next]_vars

(***************************************************************************)
(* Entries and who may touch them: three identities, a frozen clock        *)
(***************************************************************************)
AccessCreds == NoCredential \cup BearerOnly

NextAccess ==
    \/ CreateSession({"sid"}, {"ok"}, OwnToken)
    \/ CreateEntry(BearerOnly, {e \in EntryInputs : e.date = 1}, MaxEntries)
    \/ GetEntry(AccessCreds)
    \/ UpdateEntry(AccessCreds, {[notes |-> <<"x">>]})
    \/ DeleteEntry(AccessCreds)

SpecAccess == Init /\ [][NextAccess]_vars

(***************************************************************************)
(* Updates of one user's entries while time passes                         *)
(***************************************************************************)
UserA == {<<NoToken, "t1">>}

\* the state after a@example.com has signed in at day 0
InitUserA ==
    /\ users = <<[id |-> 1, email |-> "a@example.com", name |-> "n",
                  picture |-> "", role |-> RoleFor("a@example.com"),
                  created_at |-> 0]>>
    /\ sessions = <<[user_id |-> 1, session_token |-> "t1",
                     expires_at |-> SESSION_DAYS, created_at |-> 0]>>
    /\ entries = <<>>
    /\ now = 0
    /\ ticks = 0
    /\ nextEntryId = 1
    /\ resp = NoResp("init")
    /\ calls = NoCalls

NextUpdate ==
    \/ CreateEntry(UserA, EntryInputs, MaxEntries)
    \/ UpdateEntry(UserA, UpdateInputs)
    \/ DeleteEntry(UserA)
    \/ PassTime({1})

SpecUpdate == InitUserA /\ [][NextUpdate]_vars

(***************************************************************************)
(* Every authenticated endpoint, called with credentials of every kind     *)
(* while the session of a@example.com runs out                             *)
(***************************************************************************)
AuthCreds == NoCredential \cup BearerOnly \cup {<<"t1", NoToken>>}

NextAuth ==
    \/ GetMe(AuthCreds)
    \/ CreateEntry(AuthCreds, {e \in EntryInputs : e.date = 1}, MaxEntries)
    \/ GetUserEntries(AuthCreds)
    \/ GetEntry(AuthCreds)
    \/ UpdateEntry(AuthCreds, {[notes |-> <<"x">>]})
    \/ DeleteEntry(AuthCreds)
    \/ GetDashboardSummary(AuthCreds)
    \/ GetChartData(AuthCreds)
    \/ GetAllEntries(AuthCreds)
    \/ GetAllUsers(AuthCreds)
    \/ ExportData(AuthCreds)
    \/ PassTime({SESSION_DAYS, SESSION_DAYS + 1})

SpecAuth == InitUserA /\ [][NextAuth]_vars

(***************************************************************************)
(* The admin endpoints, called by the admin, by a user and by strangers    *)
(***************************************************************************)
NextAdmin ==
    \/ CreateSession({"sid"}, {"ok"}, {d \in OwnToken : d.email # "b@example.com"})
    \/ CreateEntry(BearerOnly, {e \in EntryInputs : e.date = 1}, MaxEntries)
    \/ GetAllEntries(AccessCreds)
    \/ GetAllUsers(AccessCreds)
    \/ ExportData(AccessCreds)

SpecAdmin == Init /\ [][NextAdmin]_vars

(***************************************************************************)
(* The dashboard over every small entry collection.  The aggregations are  *)
(* functions of the collection and the clock, so the collection is drawn   *)
(* in the initial state: up to MaxStored entries of two owners, created 31 *)
(* days ago, 30 days ago, 7 days ago or today, in the order of insertion;  *)
(* both owners have signed in today.                                       *)
(***************************************************************************)
Today == CHART_DAYS + 1

CreatedAts == {0, Today - CHART_DAYS, Today - RECENT_DAYS, Today}

StoredEntry(n, owner, entry_data, at) ==
    [f \in EntryFields |->
        CASE f = "id" -> n
          [] f = "user_id" -> owner
          [] f = "created_at" -> at
          [] f = "updated_at" -> at
          [] OTHER -> entry_data[f]]

Collections ==
    UNION { { [n \in 1..len |-> StoredEntry(n, o[n], d[n], a[n])] :
                o \in [1..len -> {1, 2}], d \in [1..len -> EntryInputs],
                a \in {c \in [1..len -> CreatedAts] :
                          \A n \in 1..(len - 1) : c[n] <= c[n + 1]} } :
            len \in 0..MaxStored }

InitAgg ==
    /\ users = <<[id |-> 1, email |-> "a@example.com", name |-> "n",
                  picture |-> "", role |-> RoleFor("a@example.com"),
                  created_at |-> 0],
                 [id |-> 2, email |-> "b@example.com", name |-> "n",
                  picture |-> "", role |-> RoleFor("b@example.com"),
                  created_at |-> 0]>>
    /\ sessions = <<[user_id |-> 1, session_token |-> "t1",
                     expires_at |-> Today + SESSION_DAYS, created_at |-> Today],
                    [user_id |-> 2, session_token |-> "t2",
                     expires_at |-> Today + SESSION_DAYS, created_at |-> Today]>>
    /\ entries \in Collections
    /\ now = Today
    /\ ticks = 0
    /\ nextEntryId = Len(entries) + 1
    /\ resp = NoResp("init")
    /\ calls = NoCalls

NextAgg ==
    \/ GetDashboardSummary(BearerOnly)
    \/ GetChartData(BearerOnly)

SpecAgg == InitAgg /\ [][NextAgg]_vars

(***************************************************************************)
(* Sessions that run out, with the identity provider free to hand the same *)
(* token to two sign-ins                                                   *)
(***************************************************************************)
NextExpiry ==
    \/ CreateSession({"sid"}, {"ok"},
                     {d \in ProviderData :
                         d.email # ADMIN_EMAIL /\ d.session_token # "t0"})
    \/ GetMe(AccessCreds)
    \/ PassTime({SESSION_DAYS, SESSION_DAYS + 1})

SpecExpiry == Init /\ [][NextExpiry]_vars

(***************************************************************************)
(* A user whose listing is as long as the cursor of get_user_entries reads *)
(***************************************************************************)
\* the state after a@example.com has signed in at day 0 and created
\* USER_ENTRIES_LIMIT entries
InitListCap ==
    /\ users = <<[id |-> 1, email |-> "a@example.com", name |-> "n",
                  picture |-> "", role |-> RoleFor("a@example.com"),
                  created_at |-> 0]>>
    /\ sessions = <<[user_id |-> 1, session_token |-> "t1",
                     expires_at |-> SESSION_DAYS, created_at |-> 0]>>
    /\ entries = [n \in 1..USER_ENTRIES_LIMIT |->
                    StoredEntry(n, 1, CHOOSE e \in EntryInputs : e.date = 2, 0)]
    /\ now = 0
    /\ ticks = 0
    /\ nextEntryId = USER_ENTRIES_LIMIT + 1
    /\ resp = NoResp("init")
    /\ calls = NoCalls

NextListCap ==
    \/ CreateEntry(UserA, EntryInputs, USER_ENTRIES_LIMIT + 1)
    \/ GetUserEntries(UserA)
    \/ UpdateEntry(UserA, UpdateInputs)
    \/ DeleteEntry(UserA)

SpecListCap == InitListCap /\ [][NextListCap]_vars

(***************************************************************************)
(* A collection with as many dates as the cursor of get_chart_data reads   *)
(***************************************************************************)
\* the state after a@example.com has signed in at day 0 and created one
\* entry for each of the dates 1..CHART_LIMIT
InitChartCap ==
    /\ users = <<[id |-> 1, email |-> "a@example.com", name |-> "n",
                  picture |-> "", role |-> RoleFor("a@example.com"),
                  created_at |-> 0]>>
    /\ sessions = <<[user_id |-> 1, session_token |-> "t1",
                     expires_at |-> SESSION_DAYS, created_at |-> 0]>>
    /\ entries = [n \in 1..CHART_LIMIT |->
                    StoredEntry(n, 1,
                        [(CHOOSE e \in EntryInputs : e.date = 2) EXCEPT !.date = n],
                        0)]
    /\ now = 0
    /\ ticks = 0
    /\ nextEntryId = CHART_LIMIT + 1
    /\ resp = NoResp("init")
    /\ calls = NoCalls

NextChartCap ==
    \/ CreateEntry(UserA, {[e EXCEPT !.date = d] :
                              e \in EntryInputs, d \in {1, CHART_LIMIT + 1}},
                   CHART_LIMIT + 1)
    \/ GetChartData(UserA)
    \/ UpdateEntry(UserA, UpdateInputs)
    \/ DeleteEntry(UserA)

SpecChartCap == InitChartCap /\ [][NextChartCap]_vars

(***************************************************************************)
(* Signing in and out, with the identity provider free to hand the same    *)
(* token to two sign-ins                                                   *)
(***************************************************************************)
NextLogout ==
    \/ CreateSession({"sid"}, {"ok"},
                     {d \in ProviderData :
                         d.email # ADMIN_EMAIL /\ d.session_token # "t0"})
    \/ Logout(AccessCreds)
    \/ GetMe(AccessCreds)

SpecLogout == Init /\ [][NextLogout]_vars

(***************************************************************************)
(* Signing in with and without the header, the provider accepting,         *)
(* rejecting or out of reach                                               *)
(***************************************************************************)
ProviderOutcomes == {"ok", "rejected", "unreachable"}

NextSignIn ==
    \/ CreateSession({NoHeader, "sid"}, ProviderOutcomes, ProviderData)
    \/ GetMe(AccessCreds)

SpecSignIn == Init /\ [][NextSignIn]_vars

(***************************************************************************)
(* Requests that carry a cookie, a bearer token, both or neither, while    *)
(* the sessions of two users run out                                       *)
(***************************************************************************)
TwoTokens == {c \in Credentials : "t0" \notin {c[1], c[2]}}

NextCookie ==
    \/ CreateSession({"sid"}, {"ok"}, {d \in OwnToken : d.email # ADMIN_EMAIL})
    \/ GetMe(TwoTokens)
    \/ Logout(TwoTokens)
    \/ PassTime({SESSION_DAYS + 1})

SpecCookie == Init /\ [][NextCookie]_vars

(***************************************************************************)
(* Sign-ins of two identities that overlap                                 *)
(***************************************************************************)
NextSignInRace ==
    \/ CreateSessionBegin({"sid"}, {"ok"}, {d \in OwnToken : d.email # ADMIN_EMAIL})
    \/ CreateSessionFindUser
    \/ CreateSessionInsertUser
    \/ CreateSessionInsertSession

SpecSignInRace == Init /\ [][NextSignInRace]_vars

(***************************************************************************)
(* Updates and deletes of one user's entries that overlap                  *)
(***************************************************************************)
RaceBodies ==
    { [notes |-> <<"x">>, challan_amount |-> <<7>>],
      [notes |-> <<"y">>, date |-> <<2>>] }

NextEntryRace ==
    \/ CreateEntry(UserA, {e \in EntryInputs : e.date = 1 /\ e.notes = ""
                                                   /\ e.vehicle_missing = 1},
                   MaxEntries)
    \/ UpdateEntryBegin(UserA, 1..MaxEntries, RaceBodies)
    \/ UpdateEntryUpdateOne
    \/ UpdateEntryFindOne
    \/ DeleteEntryBegin(UserA, 1..MaxEntries)
    \/ DeleteEntryDeleteOne

SpecEntryRace == InitUserA /\ [][NextEntryRace]_vars

(***************************************************************************)
(* Claims.  resp' is the response of the request a step serves, so an      *)
(* action formula reads the request from resp', the stored data before the *)
(* request from the unprimed variables and after it from the primed ones.  *)
(***************************************************************************)

\* C1: get_entry, update_entry and delete_entry decide access the same way
\* for an authenticated requester R and entry id i: 404 when no entry has
\* id i (whoever R is); else 403, the entries untouched, when R is neither
\* the owner nor an admin; else the operation succeeds (the owner and an
\* admin read, change and delete the entry).
C1_UniformAccess ==
    [][ LET i == resp'.entry_id
            R == get_current_user(resp'.cookie, resp'.bearer)
            present == \E k \in 1..Len(entries) : entries[k].id = i
            e == entries[CHOOSE k \in 1..Len(entries) : entries[k].id = i]
        IN  (resp'.op \in {"get_entry", "update_entry", "delete_entry"} /\ R # <<>>)
            => IF ~present
               THEN resp'.status = 404 /\ entries' = entries
               ELSE IF e.user_id # R[1].id /\ R[1].role # "admin"
               THEN resp'.status = 403 /\ entries' = entries
               ELSE /\ resp'.status = 200
                    /\ resp'.op = "get_entry"
                          => resp'.body = <<e>> /\ entries' = entries
                    /\ resp'.op = "update_entry"
                          => /\ Len(resp'.body) = 1
                             /\ resp'.body[1].id = i
                             /\ resp'.body[1].updated_at = now
                             /\ \E k \in 1..Len(entries') : entries'[k] = resp'.body[1]
                    /\ resp'.op = "delete_entry"
                          => /\ Len(entries') = Len(entries) - 1
                             /\ \A k \in 1..Len(entries') : entries'[k].id # i
      ]_vars

\* a user who is neither owner nor admin was refused the update of an
\* existing entry
C1_Witness ==
    LET R == get_current_user(resp.cookie, resp.bearer)
    IN  /\ resp.op = "update_entry"
        /\ resp.status = 403
        /\ R # <<>>
        /\ R[1].role = "user"
        /\ \E k \in 1..Len(entries) :
              entries[k].id = resp.entry_id /\ entries[k].user_id # R[1].id

\* C7: a successful update_entry changes only the fields the request
\* supplies (with a value, among the fields an update may name) and
\* updated_at; every other field and every other entry keeps its value, and
\* no operation changes the id, user_id or created_at of a stored entry.
C7_UpdateFrame ==
    [][ /\ \A k \in 1..Len(entries), m \in 1..Len(entries') :
              entries'[m].id = entries[k].id
              => /\ entries'[m].user_id = entries[k].user_id
                 /\ entries'[m].created_at = entries[k].created_at
        /\ (resp'.op = "update_entry" /\ resp'.status = 200)
           => LET B == resp'.data
                  supplied == {f \in DOMAIN B \cap UpdateFields : B[f] # <<>>}
              IN  /\ Len(entries') = Len(entries)
                  /\ \A k \in 1..Len(entries) :
                        /\ entries[k].id # resp'.entry_id => entries'[k] = entries[k]
                        /\ \A f \in EntryFields \ {"updated_at"} :
                              f \notin supplied => entries'[k][f] = entries[k][f]
      ]_vars

\* an update that supplied only notes, a day after the entry was created
C7_Witness ==
    /\ resp.op = "update_entry"
    /\ resp.status = 200
    /\ DOMAIN resp.data = {"notes"}
    /\ resp.body[1].notes = "x"
    /\ resp.body[1].challan_amount = 1000
    /\ resp.body[1].updated_at > resp.body[1].created_at

\* C4: every stored user has role admin exactly when its email is the
\* admin address; the role is set when create_session creates the user and
\* no step, another create_session for the same email included, changes the
\* id, email or role of a stored user.
C4_RoleFixed ==
    [][ /\ \A i \in 1..Len(users') :
              users'[i].role = "admin" <=> users'[i].email = "jibon.ipe@gmail.com"
        /\ \A i \in 1..Len(users') : users'[i].role \in {"user", "admin"}
        /\ Len(users') >= Len(users)
        /\ \A i \in 1..Len(users) :
              /\ users'[i].id = users[i].id
              /\ users'[i].email = users[i].email
              /\ users'[i].role = users[i].role
        /\ users' # users => resp'.op = "create_session"
      ]_vars

\* the admin has signed in twice and is stored once, as admin
C4_Witness ==
    /\ Len(users) = 1
    /\ users[1].email = "jibon.ipe@gmail.com"
    /\ users[1].role = "admin"
    /\ Len(sessions) = 2
    /\ resp.op = "create_session"

AuthenticatedOps ==
    {"get_me", "create_entry", "get_user_entries", "get_entry", "update_entry",
     "delete_entry", "get_dashboard_summary", "get_chart_data",
     "get_all_entries", "get_all_users", "export_data"}

\* C5: a request to GET /auth/me or to an entry, dashboard or admin endpoint
\* whose credential does not resolve to a user (no cookie and no bearer
\* token, a token of no session, an expired session, a session whose user
\* is missing) is answered 401 with no data, and no user or entry record is
\* created, changed or deleted.
C5_Unauthorized ==
    [][ LET t == IF resp'.cookie # "" THEN resp'.cookie ELSE resp'.bearer
            S == {i \in 1..Len(sessions) : sessions[i].session_token = t}
            first == CHOOSE i \in S : \A j \in S : i <= j
            unresolved ==
                \/ t = ""
                \/ S = {}
                \/ now > sessions[first].expires_at
                \/ ~\E u \in 1..Len(users) : users[u].id = sessions[first].user_id
        IN  (resp'.op \in AuthenticatedOps /\ unresolved)
            => /\ resp'.status = 401
               /\ resp'.body = <<>>
               /\ users' = users
               /\ entries' = entries
               /\ nextEntryId' = nextEntryId
      ]_vars

\* a delete of a stored entry was refused with 401 after the only session
\* had run out and was removed
C5_Witness ==
    /\ resp.op = "delete_entry"
    /\ resp.status = 401
    /\ resp.bearer = "t1"
    /\ sessions = <<>>
    /\ now > SESSION_DAYS
    /\ \E k \in 1..Len(entries) : entries[k].id = resp.entry_id

\* C6: an admin endpoint answers 401 (never 403) when the credential does
\* not resolve to a user, 403 for every authenticated user whose role is not
\* admin, and returns data only to an admin.
C6_AdminOnly ==
    [][ LET R == get_current_user(resp'.cookie, resp'.bearer)
        IN  resp'.op \in {"get_all_entries", "get_all_users", "export_data"}
            => /\ R = <<>> => resp'.status = 401
               /\ (R # <<>> /\ R[1].role # "admin") => resp'.status = 403
               /\ (R # <<>> /\ R[1].role = "admin") => resp'.status = 200
               /\ resp'.status # 200 => resp'.body = <<>>
               /\ resp'.body # <<>> => (R # <<>> /\ R[1].role = "admin")
      ]_vars

\* a signed-in user who is not the admin was refused the export of stored
\* entries
C6_Witness ==
    LET R == get_current_user(resp.cookie, resp.bearer)
    IN  /\ resp.op = "export_data"
        /\ resp.status = 403
        /\ R # <<>>
        /\ R[1].role = "user"
        /\ entries # <<>>

\* the sum of field f over the stored entries with index in S
RECURSIVE TotalOver(_, _)
TotalOver(S, f) ==
    IF S = {} THEN 0
    ELSE LET i == CHOOSE i \in S : TRUE
         IN  entries[i][f] + TotalOver(S \ {i}, f)

\* C8: get_dashboard_summary returns, for each of the six amount and vehicle
\* fields, the sum of the field over all stored entries of all owners,
\* whoever the authenticated requester is.
C8_GlobalTotals ==
    resp.op = "get_dashboard_summary"
    => LET R == get_current_user(resp.cookie, resp.bearer)
           all == 1..Len(entries)
       IN  /\ R # <<>> => resp.status = 200
           /\ resp.status = 200
              => /\ resp.body[1].total_challan_amount = TotalOver(all, "challan_amount")
                 /\ resp.body[1].total_delivered_amount = TotalOver(all, "delivered_amount")
                 /\ resp.body[1].total_pending_amount = TotalOver(all, "pending_amount")
                 /\ resp.body[1].total_vehicle_required = TotalOver(all, "vehicle_required")
                 /\ resp.body[1].total_vehicle_confirmed = TotalOver(all, "vehicle_confirmed")
                 /\ resp.body[1].total_vehicle_missing = TotalOver(all, "vehicle_missing")

\* a user got the totals of a collection that holds another owner's entry
\* beside their own
C8_Witness ==
    LET R == get_current_user(resp.cookie, resp.bearer)
    IN  /\ resp.op = "get_dashboard_summary"
        /\ resp.status = 200
        /\ Len(entries) = 2
        /\ entries[1].user_id = R[1].id
        /\ entries[2].user_id # R[1].id
        /\ resp.body[1].total_pending_amount = 580

\* C9: get_dashboard_summary never divides by zero; delivery_rate is
\* 100 * total_delivered / total_challan when total_challan > 0 and 0
\* otherwise, vehicle_utilization_rate is 100 * total_vehicle_confirmed /
\* total_vehicle_required when total_vehicle_required > 0 and 0 otherwise;
\* on an empty collection every total, both rates and the recent count are 0.
C9_Rates ==
    resp.op = "get_dashboard_summary"
    => /\ resp.status # 500
       /\ resp.status = 200
          => LET s == resp.body[1]
             IN  /\ s.delivery_rate.den > 0
                 /\ s.vehicle_utilization_rate.den > 0
                 /\ IF s.total_challan_amount > 0
                    THEN s.delivery_rate.num * s.total_challan_amount
                            = 100 * s.total_delivered_amount * s.delivery_rate.den
                    ELSE s.delivery_rate.num = 0
                 /\ IF s.total_vehicle_required > 0
                    THEN s.vehicle_utilization_rate.num * s.total_vehicle_required
                            = 100 * s.total_vehicle_confirmed
                                * s.vehicle_utilization_rate.den
                    ELSE s.vehicle_utilization_rate.num = 0
                 /\ entries = <<>>
                    => /\ s.total_challan_amount = 0
                       /\ s.total_delivered_amount = 0
                       /\ s.total_pending_amount = 0
                       /\ s.total_vehicle_required = 0
                       /\ s.total_vehicle_confirmed = 0
                       /\ s.total_vehicle_missing = 0
                       /\ s.delivery_rate.num = 0
                       /\ s.vehicle_utilization_rate.num = 0
                       /\ s.recent_entries_count = 0

\* a summary with no vehicle required, a vehicle confirmed and no challan
\* amount: both rates are 0
C9_Witness ==
    /\ resp.op = "get_dashboard_summary"
    /\ resp.status = 200
    /\ resp.body[1].total_vehicle_required = 0
    /\ resp.body[1].total_vehicle_confirmed > 0
    /\ resp.body[1].total_challan_amount = 0
    /\ resp.body[1].vehicle_utilization_rate.num = 0
    /\ resp.body[1].delivery_rate.num = 0

\* the user the credential of the last request resolves to in this state
ResolvedAgain == get_current_user(resp.cookie, resp.bearer)

\* C2: for every session s, a credential resolution with s's token at a time
\* now > s.expires_at yields Unauthenticated and removes s's record from the
\* store, and a resolution with the same token right after it yields
\* Unauthenticated too; a resolution at now <= s.expires_at does not remove s.
C2_ExpiredSessionRemoved ==
    [][ LET t == IF resp'.cookie # "" THEN resp'.cookie ELSE resp'.bearer
        IN  resp'.op \in AuthenticatedOps
            => \A i \in 1..Len(sessions) :
                  sessions[i].session_token = t
                  => IF now > sessions[i].expires_at
                     THEN /\ resp'.status = 401
                          /\ \A j \in 1..Len(sessions') : sessions'[j] # sessions[i]
                          /\ ResolvedAgain' = <<>>
                     ELSE \E j \in 1..Len(sessions') : sessions'[j] = sessions[i]
      ]_vars

\* C3: get_user_entries called by U contains every stored entry of U and no
\* entry of another user, ordered by the date field descending.
C3_OwnerListing ==
    (resp.op = "get_user_entries" /\ resp.status = 200)
    => LET R == get_current_user(resp.cookie, resp.bearer)
           L == resp.body
       IN  /\ \A k \in 1..Len(entries) :
                 entries[k].user_id = R[1].id
                 => \E j \in 1..Len(L) : L[j] = entries[k]
           /\ \A j \in 1..Len(L) : L[j].user_id = R[1].id
           /\ \A j \in 1..(Len(L) - 1) : L[j].date >= L[j + 1].date

\* C10: get_chart_data returns exactly one bucket for each distinct date
\* among the entries created within the last CHART_DAYS days and none for
\* any other date; a bucket holds the sums over those entries with its date;
\* the buckets are ordered ascending by date.
C10_ChartBuckets ==
    (resp.op = "get_chart_data" /\ resp.status = 200)
    => LET B == resp.body[1].daily_trend
           W == {k \in 1..Len(entries) : entries[k].created_at >= now - CHART_DAYS}
           On(d) == {k \in W : entries[k].date = d}
       IN  /\ \A k \in W : \E j \in 1..Len(B) : B[j]._id = entries[k].date
           /\ \A j \in 1..Len(B) :
                 /\ On(B[j]._id) # {}
                 /\ B[j].challan_amount = TotalOver(On(B[j]._id), "challan_amount")
                 /\ B[j].delivered_amount = TotalOver(On(B[j]._id), "delivered_amount")
                 /\ B[j].pending_amount = TotalOver(On(B[j]._id), "pending_amount")
                 /\ B[j].vehicle_required = TotalOver(On(B[j]._id), "vehicle_required")
                 /\ B[j].vehicle_confirmed = TotalOver(On(B[j]._id), "vehicle_confirmed")
           /\ \A j \in 1..(Len(B) - 1) : B[j]._id < B[j + 1]._id

\* C11: logout always answers 200; with a credential it deletes the session
\* row matching the token, so that resolving the credential afterwards
\* yields Unauthenticated and no row with the token is left for a repeated
\* logout to delete; sessions with other tokens, users and entries are left
\* unchanged, and without a credential no session is deleted.
C11_Logout ==
    [][ LET t == IF resp'.cookie # "" THEN resp'.cookie ELSE resp'.bearer
        IN  resp'.op = "logout"
            => /\ resp'.status = 200
               /\ users' = users
               /\ entries' = entries
               /\ SelectSeq(sessions', LAMBDA x : x.session_token # t)
                     = SelectSeq(sessions, LAMBDA x : x.session_token # t)
               /\ t = "" => sessions' = sessions
               /\ t # ""
                  => /\ ResolvedAgain' = <<>>
                     /\ \A i \in 1..Len(sessions') : sessions'[i].session_token # t
      ]_vars

\* C12: no two stored session records have the same session_token.
C12_TokensUnique ==
    \A i, j \in 1..Len(sessions) :
        i # j => sessions[i].session_token # sessions[j].session_token

\* C15: create_session creates nothing when it fails: without the
\* X-Session-ID header it answers 400 whatever the provider would do, with
\* the header it answers 400 when the provider rejects and 500 when the
\* provider is out of reach; in the three cases no user and no session is
\* inserted and no cookie is set.
C15_FailureCreatesNothing ==
    [][ \A session_id \in {NoHeader, "sid"}, outcome \in ProviderOutcomes,
           user_data \in ProviderData :
          (create_session(session_id, outcome, user_data)
             /\ (session_id = NoHeader \/ outcome # "ok"))
          => /\ resp'.op = "create_session"
             /\ resp'.status = IF session_id = NoHeader THEN 400
                               ELSE IF outcome = "rejected" THEN 400 ELSE 500
             /\ users' = users
             /\ sessions' = sessions
             /\ resp'.set_cookie = ""
             /\ resp'.body = <<>>
      ]_vars

\* after one sign-in, a sign-in with the provider out of reach was answered
\* 500 and left the one user and the one session
C15_Witness ==
    /\ resp.op = "create_session"
    /\ resp.status = 500
    /\ resp.set_cookie = ""
    /\ Len(users) = 1
    /\ Len(sessions) = 1

\* C16: a request is resolved by exactly one token, the cookie when it is
\* not empty and the bearer token otherwise: the outcome is the one of the
\* first session with that token (401 when there is none, it has expired or
\* its user is missing, else 200 with its user), sessions with any other
\* token, the bearer's included, are neither read nor removed, and logout
\* deletes the first session with that token and no other.
C16_CookieFirst ==
    [][ LET t == IF resp'.cookie # "" THEN resp'.cookie ELSE resp'.bearer
            S == {i \in 1..Len(sessions) : sessions[i].session_token = t}
            first == CHOOSE i \in S : \A j \in S : i <= j
            rest == [k \in 1..(Len(sessions) - 1) |->
                        IF k < first THEN sessions[k] ELSE sessions[k + 1]]
        IN  /\ resp'.op \in AuthenticatedOps \cup {"logout"}
               => SelectSeq(sessions', LAMBDA x : x.session_token # t)
                     = SelectSeq(sessions, LAMBDA x : x.session_token # t)
            /\ resp'.op = "get_me"
               => IF t = "" \/ S = {} THEN resp'.status = 401 /\ sessions' = sessions
                  ELSE IF now > sessions[first].expires_at
                  THEN resp'.status = 401 /\ sessions' = rest
                  ELSE /\ sessions' = sessions
                       /\ IF \E u \in 1..Len(users) : users[u].id = sessions[first].user_id
                          THEN /\ resp'.status = 200
                               /\ resp'.body[1].id = sessions[first].user_id
                          ELSE resp'.status = 401
            /\ resp'.op = "logout"
               => sessions' = IF t = "" \/ S = {} THEN sessions ELSE rest
      ]_vars

\* GET /auth/me with the cookie of a@example.com and the bearer token of
\* b@example.com, both signed in, answered with a@example.com
C16_Witness ==
    /\ resp.op = "get_me"
    /\ resp.cookie = "t1"
    /\ resp.bearer = "t2"
    /\ resp.status = 200
    /\ resp.body[1].email = "a@example.com"
    /\ \E i \in 1..Len(sessions) : sessions[i].session_token = "t2"

\* C13: no two stored user records have the same email, also when two
\* create_session requests for the same new email overlap.
C13_EmailsUnique ==
    \A i, j \in 1..Len(users) : i # j => users[i].email # users[j].email

\* C14: in every state, the states between two steps of create_session
\* included, the user_id of each stored session is the id of a stored user.
C14_SessionUserExists ==
    \A i \in 1..Len(sessions) :
        \E u \in 1..Len(users) : users[u].id = sessions[i].user_id

\* a session of a new user is stored while another sign-in is suspended
\* between its lookup and its insert
C14_Witness ==
    /\ Len(sessions) = 1
    /\ Len(users) = 1
    /\ sessions[1].user_id = users[1].id
    /\ \E p \in Slots : calls[p].op = "create_session" /\ calls[p].pc = "insert_user"

\* C17: overlapping updates of one entry are last-write-wins: each store
\* write of an update sets, on the entry as it is stored at that moment,
\* the fields its request supplied and updated_at, and keeps every other
\* field, so the stored entry is the two updates applied in the order of
\* their writes; and an update whose entry is still stored is answered 200
\* with the stored entry, whatever the other update did.
C17_LastWriteWins ==
    [][ \A p \in Slots :
          (calls[p].op = "update_entry" /\ calls'[p] # calls[p])
          => LET i == calls[p].entry_id
                 body == calls[p].body
                 K == {k \in 1..Len(entries) : entries[k].id = i}
             IN  \A k \in K :
                    IF calls[p].pc = "update_one"
                    THEN /\ Len(entries') = Len(entries)
                         /\ \A f \in DOMAIN entries[k] :
                               entries'[k][f] =
                                  IF f \in DOMAIN body /\ body[f] # <<>>
                                  THEN body[f][1]
                                  ELSE IF f = "updated_at" THEN now
                                  ELSE entries[k][f]
                         /\ \A m \in 1..Len(entries) : m # k => entries'[m] = entries[m]
                    ELSE /\ resp'.op = "update_entry"
                         /\ resp'.status = 200
                         /\ resp'.body = <<entries[k]>>
                         /\ entries' = entries
      ]_vars

\* two updates of entry 1 have both written and neither has answered yet:
\* the entry has the amount of the one, the date of the other and the notes
\* of the one that wrote last
C17_Witness ==
    /\ \A p \in 1..2 : calls[p].op = "update_entry" /\ calls[p].pc = "find_one"
                        /\ calls[p].entry_id = 1
    /\ calls[1].body # calls[2].body
    /\ Len(entries) >= 1
    /\ entries[1].id = 1
    /\ entries[1].challan_amount = 7
    /\ entries[1].date = 2
    /\ entries[1].notes = "x"

\* C18: when delete_entry on entry i overlaps an update_entry on i that has
\* passed its checks, the update does not put entry i back into the store,
\* and it completes by answering 200 with the updated entry.
C18_DeleteVersusUpdate ==
    [][ \A p \in Slots :
          (calls[p].op = "update_entry" /\ calls'[p] # calls[p])
          => /\ (\A k \in 1..Len(entries) : entries[k].id # calls[p].entry_id)
                => \A k \in 1..Len(entries') : entries'[k].id # calls[p].entry_id
             /\ calls[p].pc = "find_one"
                => /\ resp'.status = 200
                   /\ Len(resp'.body) = 1
                   /\ resp'.body[1].id = calls[p].entry_id
      ]_vars

=============================================================================
